---------------------------- MODULE Spec2Model ----------------------------
(***************************************************************************)
(* Model of robobloq-led-linux: the report encoder and the Controller      *)
(* (device.py), the device locator (device.py) and the color driver        *)
(* scheduler of the web control surface (webapp.py).                       *)
(*                                                                         *)
(* The specifications of the module:                                       *)
(*   SpecCtl   one RobobloqController receiving set_color calls            *)
(*   SpecFind  find_vendor_device over a bounded set of /dev/hidraw nodes  *)
(*   Spec      the web application: handlers, driver tasks, the lock       *)
(*   SpecFade  one fade request and its task, over many requests           *)
(*   SpecFadeFair  SpecFade with the event loop's fairness                 *)
(*   SpecSync  one screen-sync run, over thresholds and drifting colors    *)
(*   SpecStatus  the status query beside the event-loop handlers           *)
(*   SpecFn    wheel evaluated on its own                                  *)
(***************************************************************************)
EXTENDS Integers, Sequences, FiniteSets, TLC

VARIABLES
    counter,    \* RobobloqController.counter
    wire,       \* the last report the device accepted (<<>>: none yet)
    call,       \* observation of the last Controller.set_color call
    ncalls,     \* number of set_color calls that returned without raising
    nodes,      \* the /dev/hidraw* nodes present (their name suffixes)
    descr,      \* node -> state of its sysfs report_descriptor file
    found,      \* outcome of find_vendor_device
    tasks,      \* the driver tasks created so far, by id
    ntasks,     \* how many were created
    ready,      \* the event loop's queue of scheduled task steps
    locked,     \* _lock: 0 when free, else the task holding it
    waiters,    \* _lock._waiters
    running,    \* the task whose step the loop thread is inside, or 0
    fadeH,      \* _fade_task   (0: None)
    effectH,    \* _effect_task (0: None)
    syncH,      \* _sync_task   (0: None)
    effectStop, \* _effect_stop.is_set()
    syncStop,   \* _sync_stop.is_set()
    current,    \* _current
    wk,         \* the worker thread running a "def" handler
    nreq,       \* requests accepted so far
    nfail,      \* set_color calls that raised so far
    lastWriter, \* ghost: the task (or Manual) of the last device write
    superseded, \* ghost: tasks inside the lock block when a manual request
                \*        that has since written was accepted
    fnArg,      \* the argument of a pure function under evaluation
    fnRes       \* its result (NoResult: not evaluated yet)

ctlVars   == <<counter, wire, call, ncalls>>
findVars  == <<nodes, descr, found>>
schedVars == <<tasks, ntasks, ready, locked, waiters, running, fadeH, effectH,
               syncH, effectStop, syncStop, current, wk, nreq, nfail,
               lastWriter, superseded>>
fnVars    == <<fnArg, fnRes>>
vars      == <<ctlVars, findVars, schedVars, fnVars>>

(***************************************************************************)
(* Bounds of the model.                                                    *)
(***************************************************************************)
MaxCalls == 250      \* set_color calls that return, per behaviour of SpecCtl
MaxTasks == 2        \* driver tasks created per behaviour of Spec
MaxReq   == 3        \* requests accepted per behaviour of Spec
MaxTicks == 2        \* iterations of an endless driver loop (pulse, rainbow, sync)
MaxFail  == 1        \* set_color calls that raise per behaviour of Spec
NumMonitors == 2     \* monitors the capture library lists besides the virtual one
MaxPos   == 300      \* wheel is evaluated at positions -MaxPos .. 2 * MaxPos
SyncTicks == 4       \* ticks of screen-sync followed by SpecSync

\* Triples handed to set_color. The command line passes its integers
\* unclamped (cli.py:14), so values outside 0..255 reach the encoder.
ColorInputs ==
    { <<0, 0, 255>>, <<255, 200, 120>>, <<300, -1, 256>>, <<-256, 511, 44>> }

(***************************************************************************)
(* device.py: the report encoder.                                          *)
(***************************************************************************)
\* BASE_HEX as its sequence of hexadecimal digits: 32 digits of the captured
\* head followed by the 96 zero digits of the three all-zero lines.
BASE_HEX ==
    <<5,2, 4,2, 1,0, 0,14, 8,6, 0,1, 0,0, 0,0,
      15,15, 4,1, 4,2, 0,0, 0,0, 0,0, 15,14, 11,9>>
    \o [i \in 1..96 |-> 0]

\* bytes.fromhex: two digits per byte, high digit first.
FromHex(h) == [i \in 1..(Len(h) \div 2) |-> 16 * h[2 * i - 1] + h[2 * i]]

\* x & 0xFF on a Python int (two's complement for negatives): x mod 256.
And255(x) == x % 256

RECURSIVE SumTo(_, _)
\* sum(pkt[0:n]) : the first n bytes (indices 1..n here)
SumTo(pkt, n) == IF n = 0 THEN 0 ELSE pkt[n] + SumTo(pkt, n - 1)

\* Mutant of _build_report: the checksum is taken before the four bytes are set.
BuildReportStaleSum(ctr, r, g, b) ==
    LET pkt == FromHex(BASE_HEX)
    IN  [i \in 1..Len(pkt) |->
            CASE i = 4  -> And255(ctr)
              [] i = 7  -> And255(r)
              [] i = 8  -> And255(g)
              [] i = 9  -> And255(b)
              [] i = 16 -> And255(SumTo(pkt, 15))
              [] OTHER  -> pkt[i]]

\* Mutant of _build_report: the red and blue channels change places.
BuildReportBgr(ctr, r, g, b) ==
    LET pkt  == FromHex(BASE_HEX)
        pkt1 == [pkt  EXCEPT ![4] = And255(ctr)]
        pkt2 == [pkt1 EXCEPT ![7] = And255(b)]
        pkt3 == [pkt2 EXCEPT ![8] = And255(g)]
        pkt4 == [pkt3 EXCEPT ![9] = And255(r)]
    IN  IF Len(pkt) # 64 THEN <<>>
        ELSE [pkt4 EXCEPT ![16] = And255(SumTo(pkt4, 15))]

\* RobobloqController._build_report. Byte k of the code is index k+1 here.
\* <<>> stands for the ValueError raised when the template is not 64 bytes.
BuildReport(ctr, r, g, b) ==
    LET pkt  == FromHex(BASE_HEX)
        pkt1 == [pkt  EXCEPT ![4] = And255(ctr)]
        pkt2 == [pkt1 EXCEPT ![7] = And255(r)]
        pkt3 == [pkt2 EXCEPT ![8] = And255(g)]
        pkt4 == [pkt3 EXCEPT ![9] = And255(b)]
    IN  IF Len(pkt) # 64 THEN <<>>
        ELSE [pkt4 EXCEPT ![16] = And255(SumTo(pkt4, 15))]

(***************************************************************************)
(* device.py: RobobloqController.set_color.                                *)
(* rawOk / featOk: whether _send_raw / _send_feature would succeed; a      *)
(* failure is the OSError the operating system reports.                    *)
(***************************************************************************)
Attempt(via, bytes, ok) == [via |-> via, bytes |-> bytes, ok |-> ok]

\* Mutant of the transport sequence: the raw write is retried once before the
\* feature report is tried.
SendAttemptsRetryRaw(report, rawOk, featOk) ==
    IF rawOk THEN << Attempt("raw", report, TRUE) >>
    ELSE << Attempt("raw", report, FALSE), Attempt("raw", report, FALSE),
            Attempt("feature", report, featOk) >>

\* The transport attempts of one set_color call, in order (lines 74-77):
\* try _send_raw; on OSError, _send_feature with the same report.
SendAttempts(report, rawOk, featOk) ==
    IF rawOk THEN << Attempt("raw", report, TRUE) >>
    ELSE << Attempt("raw", report, FALSE), Attempt("feature", report, featOk) >>

\* The call raises iff its last attempt failed (the OSError of _send_feature
\* is not caught).
Raises(attempts) == ~attempts[Len(attempts)].ok

\* Mutant of the counter update: advanced once per transport attempt.
CounterAfterPerAttempt(ctr, attempts) ==
    IF Raises(attempts) THEN ctr ELSE And255(ctr + Len(attempts))

\* Mutant of the counter update: advanced in every case (as in a finally).
CounterAfterAlways(ctr, attempts) == And255(ctr + 1)

\* self.counter after the call: line 78 runs only when no OSError propagated.
CounterAfter(ctr, attempts) ==
    IF Raises(attempts) THEN ctr ELSE And255(ctr + 1)

\* The whole call: what it sent, whether it raised, the counter it leaves,
\* and the report the device accepted (<<>> when it accepted none).
SetColorCall(ctr, r, g, b, rawOk, featOk) ==
    LET report   == BuildReport(ctr, r, g, b)
        attempts == SendAttempts(report, rawOk, featOk)
    IN  [ r |-> r, g |-> g, b |-> b, ctr |-> ctr,
          report   |-> report,
          attempts |-> attempts,
          raised   |-> Raises(attempts),
          counter  |-> CounterAfter(ctr, attempts) ]

NoCall == [ r |-> 0, g |-> 0, b |-> 0, ctr |-> 0, report |-> <<>>,
            attempts |-> <<>>, raised |-> FALSE, counter |-> 0 ]

InitialCounter == 14     \* counter: int = 0x0E

CtlInit ==
    /\ counter = InitialCounter
    /\ wire = <<>>
    /\ call = NoCall
    /\ ncalls = 0

\* One Controller.set_color(r, g, b) call, as the command line makes it.
CtlSetColor ==
    \E rgb \in ColorInputs, rawOk \in BOOLEAN, featOk \in BOOLEAN :
        LET c == SetColorCall(counter, rgb[1], rgb[2], rgb[3], rawOk, featOk)
        IN  /\ ncalls < MaxCalls
            /\ rawOk => featOk      \* featOk is not consulted when rawOk
            /\ call' = c
            /\ counter' = c.counter
            /\ wire' = IF c.raised THEN wire ELSE c.report
            /\ ncalls' = IF c.raised THEN ncalls ELSE ncalls + 1


(***************************************************************************)
(* device.py: the device locator.                                          *)
(* A node /dev/hidraw<suffix> is named by the digits of its suffix: the    *)
(* common prefix does not change the order sorted() gives the paths.       *)
(***************************************************************************)
NodeNames == { <<1>>, <<1, 0>>, <<2>> }      \* hidraw1, hidraw10, hidraw2

\* What opening and reading /sys/class/hidraw/<node>/device/report_descriptor
\* gives: the file is absent (FileNotFoundError), cannot be read
\* (PermissionError), or holds these bytes.
Absent     == [st |-> "absent", bytes |-> <<>>]
Denied     == [st |-> "denied", bytes |-> <<>>]
Holds(bs)  == [st |-> "ok", bytes |-> bs]
DescStates ==
    { Absent, Denied, Holds(<<6, 0>>), Holds(<<6, 0, 255, 9, 1>>),
      Holds(<<5, 1, 9, 6>>), Holds(<<6, 0, 254, 9>>) }

VendorSignature == <<6, 0, 255>>     \* bytes([0x06, 0x00, 0xFF])

\* f.read(3): at most the first three bytes.
Read3(bs) == SubSeq(bs, 1, IF Len(bs) < 3 THEN Len(bs) ELSE 3)

RECURSIVE LexLess(_, _)
\* Python's order on strings, on the suffixes: a proper prefix sorts first.
LexLess(a, b) ==
    IF a = <<>> THEN b # <<>>
    ELSE IF b = <<>> THEN FALSE
    ELSE IF Head(a) # Head(b) THEN Head(a) < Head(b)
    ELSE LexLess(Tail(a), Tail(b))

RECURSIVE Sorted(_)
\* sorted(glob.glob("/dev/hidraw*"))
Sorted(S) ==
    IF S = {} THEN <<>>
    ELSE LET m == CHOOSE x \in S : \A y \in S \ {x} : LexLess(x, y)
         IN  <<m>> \o Sorted(S \ {m})

\* _is_vendor_descriptor: "true" / "false", or "oserror" when open() raises
\* an OSError other than FileNotFoundError, which the function does not catch.
IsVendorDescriptor(d) ==
    CASE d.st = "absent" -> "false"
      [] d.st = "denied" -> "oserror"
      [] OTHER -> IF Read3(d.bytes) = VendorSignature THEN "true" ELSE "false"

NotFound   == [kind |-> "notfound", dev |-> <<>>]   \* the RuntimeError of line 37
OSErrorOut == [kind |-> "oserror",  dev |-> <<>>]   \* an uncaught OSError
Pending    == [kind |-> "pending",  dev |-> <<>>]   \* not called yet
FoundDev(d) == [kind |-> "ok", dev |-> d]

RECURSIVE Scan(_, _)
\* The for loop of find_vendor_device over the sorted candidates.
Scan(devs, ds) ==
    IF devs = <<>> THEN NotFound
    ELSE LET v == IsVendorDescriptor(ds[Head(devs)])
         IN  CASE v = "true"    -> FoundDev(Head(devs))
               [] v = "oserror" -> OSErrorOut
               [] OTHER         -> Scan(Tail(devs), ds)

FindVendorDevice(present, ds) == Scan(Sorted(present), ds)

FindIdle ==
    /\ nodes = {}
    /\ descr = [n \in NodeNames |-> Absent]
    /\ found = Pending

FindInit ==
    /\ nodes \in SUBSET NodeNames
    /\ descr \in [NodeNames -> DescStates]
    /\ \A n \in NodeNames \ nodes : descr[n] = Absent
    /\ found = Pending

\* One call of find_vendor_device().
FindCall ==
    /\ found = Pending
    /\ found' = FindVendorDevice(nodes, descr)
    /\ UNCHANGED <<nodes, descr>>

(***************************************************************************)
(* webapp.py: pure helpers.                                                *)
(***************************************************************************)
\* Mutant of clamp: the upper bound is not applied.
ClampNoHigh(v, lo, hi) == IF v < lo THEN lo ELSE v

\* clamp(v, lo, hi)
Clamp(v, lo, hi) == IF v < lo THEN lo ELSE IF v > hi THEN hi ELSE v

\* "c.brightness or 100": None and 0 both give 100.
BrightnessOr100(b) == IF b = 0 THEN 100 ELSE b

\* The (channel, brightness) pairs of 0..255 x 0..100 at which the binary64
\* product channel * (brightness / 100.0) is just below the integer
\* channel * brightness / 100, so that int() gives one less. Everywhere else
\* int() of the product is the floor of the exact quotient.
FloatShort ==
    { <<50, 58>>, <<90, 70>>, <<100, 29>>, <<100, 57>>, <<100, 58>>, <<150, 82>>,
      <<170, 70>>, <<180, 35>>, <<180, 70>>, <<200, 29>>, <<200, 57>>, <<200, 58>> }

\* int(channel * scale) with scale = brightness / 100.0, for a channel in
\* 0..255 and a brightness in 0..100.
Scaled(ch, br) ==
    IF <<ch, br>> \in FloatShort THEN (ch * br) \div 100 - 1 ELSE (ch * br) \div 100

\* apply_brightness: the brightness clamped, int(channel * scale) per channel.
ApplyBrightness(rgb, brightness) ==
    LET br == Clamp(brightness, 0, 100)
    IN  [i \in 1..3 |-> Scaled(rgb[i], br)]

\* Mutant of the handlers: the requested channels are handed on as they are.
RequestColorRaw(rgb, brightness) == rgb

\* The color a handler hands on: channels clamped, brightness applied
\* (set_color_api lines 638-639, fade_api 651-652, effect_start 673-674).
RequestColor(rgb, brightness) ==
    ApplyBrightness([i \in 1..3 |-> Clamp(rgb[i], 0, 255)],
                    Clamp(BrightnessOr100(brightness), 0, 100))

\* Mutant of wheel: the position is not reduced modulo 256.
WheelNoMod(pos) ==
    LET p == pos
    IN  IF p < 85 THEN <<p * 3, 255 - p * 3, 0>>
        ELSE IF p < 170 THEN <<255 - (p - 85) * 3, 0, (p - 85) * 3>>
        ELSE <<0, (p - 170) * 3, 255 - (p - 170) * 3>>

\* wheel(pos)
Wheel(pos) ==
    LET p == pos % 256
    IN  IF p < 85 THEN <<p * 3, 255 - p * 3, 0>>
        ELSE IF p < 170 THEN <<255 - (p - 85) * 3, 0, (p - 85) * 3>>
        ELSE <<0, (p - 170) * 3, 255 - (p - 170) * 3>>

\* Python's round() of the rational n/d (d > 0): to nearest, ties to even.
RoundHalfEven(n, d) ==
    LET q == n \div d
        r == n % d
    IN  IF 2 * r < d THEN q
        ELSE IF 2 * r > d THEN q + 1
        ELSE IF q % 2 = 0 THEN q ELSE q + 1

RECURSIVE Gcd(_, _)
Gcd(a, b) == IF b = 0 THEN a ELSE Gcd(b, a % b)

RECURSIVE IsPow2(_)
IsPow2(n) == n = 1 \/ (n % 2 = 0 /\ IsPow2(n \div 2))

\* t = i / steps is an exact binary64 value iff the reduced denominator is a
\* power of two; then start + (target - start) * t is computed exactly.
ExactT(i, steps) == IsPow2(steps \div Gcd(i, steps))

\* The exact value of the step lies halfway between two integers while t is
\* not exact: the binary64 value handed to round() can fall on either side.
InexactTie(s, t, i, steps) ==
    /\ ~ExactT(i, steps)
    /\ (2 * (t - s) * i) % (2 * steps) = steps

\* The ways round() can go at step i, per channel: 0 is the exact round-half-
\* even result, 1 the other neighbour, possible only at an inexact tie.
FadeTies(start, target, i, steps) ==
    { e \in [1..3 -> {0, 1}] :
        \A c \in 1..3 : e[c] = 1 => InexactTie(start[c], target[c], i, steps) }

\* Mutant of fade_to: the loop index runs from 0, so that step 0 (the start
\* color) is written first and the last write stops one step short.
FadeColorFromZero(start, target, i, steps, tie) ==
    [c \in 1..3 |->
        RoundHalfEven(start[c] * steps + (target[c] - start[c]) * (i - 1), steps)]

\* fade_to lines 164-167: round(start + (target - start) * (i / steps)).
FadeColor(start, target, i, steps, tie) ==
    [c \in 1..3 |->
        LET n == start[c] * steps + (target[c] - start[c]) * i
            q == RoundHalfEven(n, steps)
        IN  IF tie[c] = 0 THEN q
            ELSE IF q * steps > n THEN q - 1 ELSE q + 1]

PulseSteps == 50     \* steps = 50
MaxSteps == 300      \* steps = clamp(steps, 1, 300)

\* effect_pulse: iteration k of one cycle writes round(base * i / steps) with
\* i = 0..50 on the way up (k = 0..50) and 50..0 on the way down (k = 51..101).
PulseColor(base, k) ==
    LET i == IF k <= PulseSteps THEN k ELSE 2 * PulseSteps + 1 - k
    IN  [c \in 1..3 |-> RoundHalfEven(base[c] * i, PulseSteps)]

Abs(x) == IF x < 0 THEN -x ELSE x

\* screen_sync_loop line 231: sum(abs(a - b) for a, b in zip(rgb, last_rgb))
Delta(x, y) == Abs(x[1] - y[1]) + Abs(x[2] - y[2]) + Abs(x[3] - y[3])

(***************************************************************************)
(* webapp.py: the scheduler state.                                         *)
(*                                                                         *)
(* Threads. The application object is a FastAPI app. The handlers declared *)
(* "async def" (fade_api, effect_start, sync_start) run on the event loop  *)
(* thread, each one whole between two steps of the driver tasks, for they  *)
(* contain no await. The handlers declared "def" (set_color_api, off_api,  *)
(* stop_api, effect_stop, sync_stop, status) are run by the framework in a *)
(* worker thread: their statements interleave with the event loop thread,  *)
(* also inside a step of a driver task. The model follows one worker       *)
(* thread.                                                                 *)
(***************************************************************************)
TaskIds == 1..MaxTasks

\* Ghost mark, no task id: the last writer was a handler, not a task.
Manual == MaxTasks + 1

\* A driver task (an asyncio.Task running one of the four coroutines).
\*  st    where its coroutine stands: "new" (created, first step scheduled),
\*        "lockwait" (suspended in _lock.acquire), "run" (inside the lock,
\*        about to call ctl.set_color), "sent" (inside set_color: the report
\*        was sent, self.counter not yet advanced), "wrote" (set_color
\*        returned, _current not yet updated), "sleep" (inside the lock,
\*        suspended in asyncio.sleep), "done"
\*  fut   the future it is suspended on: "none", "pending", "result",
\*        "cancelled"
\*  mustCancel  Task._must_cancel: CancelledError is thrown at the next step
\*  out   how it ended: "completed", "cancelled", "error"
\*  a, n  fade: target and steps; pulse: base; sync: change threshold in n
\*  k     fade: i; pulse: iteration of the cycle; rainbow: j; sync: tick
\*  bad   sync: cfg.monitor is outside 1..len(sct.monitors)-1
\*  Ghost: cxl (cancel() was called on it), nw (its device writes),
\*  old (the tasks inside the lock block when it was created), cur0
\*  (_current when it was created), req (the request a fade was created
\*  for); of screen-sync: nt (ticks computed),
\*  seen, drew (the color of the latest tick and whether that tick called
\*  set_color), seen0, drew0 (the same of the tick before)
NoTask ==
    [ kind |-> "none", st |-> "none", fut |-> "none", mustCancel |-> FALSE,
      out |-> "none", a |-> <<0, 0, 0>>, n |-> 0, start |-> <<0, 0, 0>>,
      k |-> 0, pend |-> <<0, 0, 0>>, last |-> <<-1, -1, -1>>, bad |-> FALSE,
      cxl |-> FALSE, nw |-> 0, old |-> {}, cur0 |-> <<0, 0, 0>>,
      req |-> [rgb |-> <<0, 0, 0>>, brightness |-> 0, steps |-> 0],
      nt |-> 0, seen |-> <<-1, -1, -1>>, drew |-> FALSE,
      seen0 |-> <<-1, -1, -1>>, drew0 |-> FALSE ]

NewTask(kind, a, n, bad, old) ==
    [ NoTask EXCEPT !.kind = kind, !.st = "new", !.a = a, !.n = n,
                    !.bad = bad, !.old = old ]

Alive(ts) == { t \in TaskIds : ts[t].st \notin {"none", "done"} }

\* Positions inside the "async with _lock" block.
InLock(ts) ==
    { t \in TaskIds : ts[t].st \in {"run", "sent", "wrote", "sleep"} }

(***************************************************************************)
(* asyncio as the code uses it. L is the part of the state the event loop  *)
(* and the lock own: [tasks, ready, locked, waiters].                      *)
(*   ready    the loop's FIFO of scheduled task steps                      *)
(*   locked   0 when _lock is free, else the task holding it               *)
(*   waiters  _lock._waiters, in arrival order                             *)
(***************************************************************************)
\* Lock._wake_up_first: the first waiter is woken unless its future is done.
WakeFirst(L) ==
    IF L.waiters = <<>> THEN L
    ELSE LET w == Head(L.waiters)
         IN  IF L.tasks[w].fut = "pending"
             THEN [L EXCEPT !.tasks[w].fut = "result", !.ready = Append(@, w)]
             ELSE L

\* Mutant of the lock: release wakes the next waiter but leaves _locked set.
ReleaseKeepsLocked(L) == WakeFirst(L)

\* Lock.release, at the exit of "async with _lock".
Release(L) == WakeFirst([L EXCEPT !.locked = 0])

\* Mutant of the lock: acquire does not look at _locked.
CanAcquireAlways(L) == TRUE

\* Lock.acquire takes the lock at once iff it is free and no live waiter
\* stands before the caller.
CanAcquire(L) ==
    /\ L.locked = 0
    /\ \A i \in 1..Len(L.waiters) : L.tasks[L.waiters[i]].fut = "cancelled"

RemoveWaiter(ws, t) == SelectSeq(ws, LAMBDA x : x # t)

\* The coroutine of task t has ended.
Finish(L, t, how) ==
    [L EXCEPT !.tasks[t].st = "done", !.tasks[t].out = how,
              !.tasks[t].fut = "none", !.tasks[t].mustCancel = FALSE]

\* Task.cancel() on a task that is not done: a pending future it waits on is
\* cancelled and its wake-up scheduled; otherwise the request is kept in
\* _must_cancel until its next step.
Cancel(L, t) ==
    IF L.tasks[t].st = "done" THEN L
    ELSE IF L.tasks[t].fut = "pending"
    THEN [L EXCEPT !.tasks[t].fut = "cancelled", !.tasks[t].cxl = TRUE,
                   !.ready = Append(@, t)]
    ELSE [L EXCEPT !.tasks[t].mustCancel = TRUE, !.tasks[t].cxl = TRUE]

\* "if h and not h.done(): h.cancel()" of cancel_fade / cancel_effect /
\* cancel_sync, for the handle value h (0: None).
CancelHandle(L, h) ==
    IF h # 0 /\ L.tasks[h].st # "done" THEN Cancel(L, h) ELSE L

\* "await asyncio.sleep(...)" reached by task t: it suspends on a timer
\* future; with _must_cancel set the future is cancelled at once.
Suspend(L, t) ==
    IF L.tasks[t].mustCancel
    THEN [L EXCEPT !.tasks[t].st = "sleep", !.tasks[t].fut = "cancelled",
                   !.tasks[t].mustCancel = FALSE, !.ready = Append(@, t)]
    ELSE [L EXCEPT !.tasks[t].st = "sleep", !.tasks[t].fut = "pending"]

(***************************************************************************)
(* webapp.py: the driver coroutines fade_to, effect_pulse, effect_rainbow  *)
(* and screen_sync_loop, from one suspension point to the next.            *)
(***************************************************************************)
\* The head of the write loop of task t, which holds the lock: the loop ends
\* (and the lock is released) or the color of this iteration is computed.
\* rgb is what the step takes from outside: the color this tick of screen-sync
\* computes from the captured frame, for a fade the way round() goes.
LoopHead(L, t, eStop, sStop, rgb) ==
    LET T == L.tasks[t]
        exit == Finish(Release(L), t, "completed")
        write(c) == [L EXCEPT !.tasks[t].st = "run", !.tasks[t].pend = c,
                              !.tasks[t].fut = "none"]
        draws == Delta(rgb, T.last) > T.n
        tick == [T EXCEPT !.nt = @ + 1, !.seen = rgb, !.drew = draws,
                          !.seen0 = T.seen, !.drew0 = T.drew]
    IN  CASE T.kind = "fade" ->
                IF T.k > T.n THEN exit
                ELSE write(FadeColor(T.start, T.a, T.k, T.n, rgb))
          [] T.kind = "rainbow" ->
                IF eStop THEN exit ELSE write(Wheel(T.k))
          [] T.kind = "pulse" ->
                IF eStop THEN exit ELSE write(PulseColor(T.a, T.k))
          [] OTHER ->     \* sync
                IF sStop THEN exit
                ELSE IF draws
                THEN [L EXCEPT !.tasks[t] = [tick EXCEPT !.st = "run", !.pend = rgb,
                                                         !.fut = "none"]]
                ELSE Suspend([L EXCEPT !.tasks[t] = [tick EXCEPT !.k = T.k + 1]], t)

\* Mutant of fade_to: the start color is the one that was current when the
\* task was created, not the one read inside the lock block.
EnterStartAtCreation(L, t, cur, eStop, sStop, rgb) ==
    LET T == L.tasks[t]
        L1 == [L EXCEPT !.locked = t, !.tasks[t].fut = "none",
                        !.tasks[t].start = T.cur0,
                        !.tasks[t].k = IF T.kind = "fade" THEN 1 ELSE 0]
    IN  LoopHead(L1, t, eStop, sStop, rgb)

\* Task t has just taken the lock: the statements before its loop.
Enter(L, t, cur, eStop, sStop, rgb) ==
    LET T == L.tasks[t]
        L1 == [L EXCEPT !.locked = t, !.tasks[t].fut = "none",
                        !.tasks[t].start = cur,
                        !.tasks[t].k = IF T.kind = "fade" THEN 1 ELSE 0]
    IN  LoopHead(L1, t, eStop, sStop, rgb)

\* The step of task t that the event loop takes from the head of its queue,
\* up to the next ctl.set_color call or suspension.
BeginStep(L, t, cur, eStop, sStop, rgb) ==
    LET T  == L.tasks[t]
        L0 == [L EXCEPT !.ready = Tail(@)]
        cancelled == T.mustCancel \/ T.fut = "cancelled"
    IN  CASE T.st = "new" ->
                IF cancelled THEN Finish(L0, t, "cancelled")
                ELSE IF T.kind = "sync" /\ T.bad THEN Finish(L0, t, "error")
                ELSE IF CanAcquire(L0) THEN Enter(L0, t, cur, eStop, sStop, rgb)
                ELSE [L0 EXCEPT !.waiters = Append(@, t),
                                !.tasks[t].st = "lockwait",
                                !.tasks[t].fut = "pending"]
          [] T.st = "lockwait" ->
                LET L1 == [L0 EXCEPT !.waiters = RemoveWaiter(@, t)]
                IN  IF cancelled
                    THEN Finish(IF L1.locked = 0 THEN WakeFirst(L1) ELSE L1,
                                t, "cancelled")
                    ELSE Enter(L1, t, cur, eStop, sStop, rgb)
          [] OTHER ->     \* "sleep"
                IF cancelled THEN Finish(Release(L0), t, "cancelled")
                ELSE LoopHead(L0, t, eStop, sStop, rgb)

\* The loop index after a write: i + 1, the next iteration of the pulse
\* cycle, (j + 1) % 256, the next tick.
NextK(T) ==
    CASE T.kind = "rainbow" -> (T.k + 1) % 256
      [] T.kind = "pulse"   -> (T.k + 1) % (2 * PulseSteps + 2)
      [] OTHER              -> T.k + 1

(***************************************************************************)
(* The requests of the model.                                              *)
(***************************************************************************)
ManualColor == [rgb |-> <<10, 20, 30>>, brightness |-> 100]
FadeTarget  == [rgb |-> <<255, 0, 300>>, brightness |-> 50, steps |-> 2]
PulseBase   == [rgb |-> <<0, 0, 255>>, brightness |-> 100]
SyncThreshold == 6       \* change_threshold: int = 6
\* What a tick of screen-sync can compute from the captured frame.
SyncColors  == { <<100, 100, 100>>, <<102, 101, 100>> }
\* The monitor index of a sync request: 2 is the default, 9 names no monitor.
MonitorInputs == {2, 9}

\* cfg.monitor < 1 or cfg.monitor >= len(sct.monitors)
BadMonitor(m) == m < 1 \/ m >= NumMonitors + 1

(***************************************************************************)
(* The web application as a state machine.                                 *)
(***************************************************************************)
\* The worker thread: the handler it runs (op), its position (pc), the color
\* of a manual request (rgb), of status the mode to return (res). Ghost: old
\* (the tasks inside the lock block when the request was accepted); of
\* status: mode0 (what the handles said when it was accepted), ended (the
\* tasks that were done then), n0 (the requests that had created no task).
Idle == [op |-> "idle", pc |-> 0, rgb |-> <<0, 0, 0>>, old |-> {},
         res |-> "none", mode0 |-> "none", ended |-> {}, n0 |-> 0]

\* No driver task exists and no handler is running.
NoDriver ==
    /\ tasks = [t \in TaskIds |-> NoTask]
    /\ ntasks = 0
    /\ ready = <<>>
    /\ locked = 0
    /\ waiters = <<>>
    /\ running = 0
    /\ fadeH = 0 /\ effectH = 0 /\ syncH = 0
    /\ effectStop = FALSE /\ syncStop = FALSE
    /\ wk = Idle
    /\ nfail = 0
    /\ superseded = {}

SchedInit ==
    /\ NoDriver
    /\ current = <<255, 200, 120>>    \* _current: assume warm-white start
    /\ nreq = 0
    /\ lastWriter = 0

\* The state one POST /api/color (or /api/off) leaves when it is the first
\* request and its write of rgb succeeds on the raw transport: the Controller
\* has made one call, _current holds rgb.
ManualDone(rgb) ==
    LET c == SetColorCall(InitialCounter, rgb[1], rgb[2], rgb[3], TRUE, TRUE)
    IN  /\ NoDriver
        /\ current = rgb
        /\ nreq = 1
        /\ lastWriter = Manual
        /\ counter = c.counter
        /\ wire = c.report
        /\ call = NoCall
        /\ ncalls = 1

LoopState ==
    [tasks |-> tasks, ready |-> ready, locked |-> locked, waiters |-> waiters]

SetLoop(L) ==
    /\ tasks' = L.tasks
    /\ ready' = L.ready
    /\ locked' = L.locked
    /\ waiters' = L.waiters

\* ctl.set_color(rgb) on the shared Controller. The call is not atomic for
\* the two threads that make it: the report is built from self.counter and
\* sent (lines 73-77), and self.counter is advanced afterwards (line 78).
\* DevWrite is the first part, Advanced the second. (Line 78 itself is taken
\* as one step: two overlapping increments that lose an update are not
\* followed.)
DevWrite(rgb, rawOk, featOk) ==
    SetColorCall(counter, rgb[1], rgb[2], rgb[3], rawOk, featOk)

\* self.counter = (self.counter + 1) & 0xFF, reached when the send returned.
Advanced(ctr) == CounterAfter(ctr, << Attempt("raw", <<>>, TRUE) >>)

\* ---- the event loop thread: steps of the driver tasks ------------------

\* What the next step of task T can take from outside (see LoopHead). A fade
\* that has not entered the lock yet starts at step 1 from _current.
StepInputs(T, cur, frames) ==
    CASE T.kind = "sync" -> frames
      [] T.kind = "fade" ->
            IF T.st = "sleep" THEN FadeTies(T.start, T.a, T.k, T.n)
            ELSE FadeTies(cur, T.a, 1, T.n)
      [] OTHER -> {<<0, 0, 0>>}

\* The loop runs the task step at the head of its queue; frames are the colors
\* a tick of screen-sync can compute from the screen.
TaskStep(frames) ==
    /\ running = 0
    /\ ready # <<>>
    /\ LET t == Head(ready)
       IN  \E rgb \in StepInputs(tasks[t], current, frames) :
             LET L == BeginStep(LoopState, t, current, effectStop, syncStop, rgb)
             IN  /\ SetLoop(L)
                 /\ running' = IF L.tasks[t].st = "run" THEN t ELSE 0
    /\ UNCHANGED <<ctlVars, findVars, fnVars, ntasks, fadeH, effectH, syncH, effectStop,
                   syncStop, current, wk, nreq, nfail, lastWriter, superseded>>

\* The timer of a sleeping task expires: its step is scheduled. The endless
\* loops (pulse, rainbow, sync) are followed for at most ticks iterations.
TimerFireUpTo(t, ticks) ==
    /\ running = 0
    /\ tasks[t].st = "sleep" /\ tasks[t].fut = "pending"
    /\ tasks[t].kind # "fade" => tasks[t].k < ticks
    /\ tasks' = [tasks EXCEPT ![t].fut = "result"]
    /\ ready' = Append(ready, t)
    /\ UNCHANGED <<ctlVars, findVars, fnVars, ntasks, locked, waiters, running, fadeH,
                   effectH, syncH, effectStop, syncStop, current, wk, nreq,
                   nfail, lastWriter, superseded>>

TimerFire(t) == TimerFireUpTo(t, MaxTicks)

TaskBegin == TaskStep(SyncColors)

\* The running task calls ctl.set_color with the color it computed: the
\* report is built and sent. When both transports fail the OSError leaves the
\* coroutine through "async with".
TaskWrite ==
    /\ running # 0
    /\ tasks[running].st = "run"
    /\ \E rawOk \in BOOLEAN, featOk \in BOOLEAN :
         LET t == running
             c == DevWrite(tasks[t].pend, rawOk, featOk)
         IN  /\ rawOk => featOk
             /\ IF c.raised
                THEN /\ nfail < MaxFail
                     /\ nfail' = nfail + 1
                     /\ SetLoop(Finish(Release(LoopState), t, "error"))
                     /\ running' = 0
                     /\ UNCHANGED <<wire, ncalls, lastWriter>>
                ELSE /\ wire' = c.report
                     /\ ncalls' = ncalls + 1
                     /\ lastWriter' = t
                     /\ tasks' = [tasks EXCEPT ![t].st = "sent",
                                               ![t].nw = @ + 1]
                     /\ UNCHANGED <<ready, locked, waiters, running, nfail>>
    /\ UNCHANGED <<counter, call, findVars, fnVars, ntasks, fadeH, effectH, syncH,
                   effectStop, syncStop, current, wk, nreq, superseded>>

\* The running task's set_color call advances the counter and returns.
TaskCount ==
    /\ running # 0
    /\ tasks[running].st = "sent"
    /\ counter' = Advanced(counter)
    /\ tasks' = [tasks EXCEPT ![running].st = "wrote"]
    /\ UNCHANGED <<wire, call, ncalls, findVars, fnVars, ntasks, ready, locked,
                   waiters, running, fadeH, effectH, syncH, effectStop,
                   syncStop, current, wk, nreq, nfail, lastWriter, superseded>>

\* Mutant of screen_sync_loop: last_rgb is not updated after a write.
TaskStoreKeepsLast ==
    /\ running # 0
    /\ tasks[running].st = "wrote"
    /\ LET t == running
           T == tasks[t]
           L == [LoopState EXCEPT !.tasks[t].k = NextK(T)]
       IN  /\ current' = T.pend
           /\ SetLoop(Suspend(L, t))
    /\ running' = 0
    /\ UNCHANGED <<ctlVars, findVars, fnVars, ntasks, fadeH, effectH, syncH,
                   effectStop, syncStop, wk, nreq, nfail, lastWriter, superseded>>

\* The running task stores the color in _current and reaches its sleep.
TaskStore ==
    /\ running # 0
    /\ tasks[running].st = "wrote"
    /\ LET t == running
           T == tasks[t]
           L == [LoopState EXCEPT
                    !.tasks[t].k = NextK(T),
                    !.tasks[t].last = IF T.kind = "sync" THEN T.pend ELSE @]
       IN  /\ current' = T.pend
           /\ SetLoop(Suspend(L, t))
    /\ running' = 0
    /\ UNCHANGED <<ctlVars, findVars, fnVars, ntasks, fadeH, effectH, syncH, effectStop,
                   syncStop, wk, nreq, nfail, lastWriter, superseded>>

\* ---- the event loop thread: the async handlers -------------------------

\* cancel_fade(), cancel_sync(), cancel_effect() run whole on the loop, in
\* the order given: each cancels its live task; the handles end None and the
\* stop events end cleared.
CancelAll(L, order) ==
    LET h(x) == CASE x = "fade" -> fadeH [] x = "sync" -> syncH [] OTHER -> effectH
    IN  CancelHandle(CancelHandle(CancelHandle(L, h(order[1])), h(order[2])),
                     h(order[3]))

\* create_task: the task exists and its first step is queued.
Spawn(L, id, task) ==
    [L EXCEPT !.tasks[id] = task, !.ready = Append(@, id)]

HandlerFrame ==
    /\ running = 0
    /\ nreq < MaxReq
    /\ nreq' = nreq + 1
    /\ effectStop' = FALSE
    /\ syncStop' = FALSE
    /\ UNCHANGED <<ctlVars, findVars, fnVars, locked, waiters, running, current, wk,
                   nfail, lastWriter, superseded>>

\* POST /api/fade with the request req (r, g, b, brightness, steps).
FadeApi(req) ==
    /\ HandlerFrame
    /\ ntasks < MaxTasks
    /\ LET id == ntasks + 1
           L  == CancelAll(LoopState, <<"fade", "sync", "effect">>)
           target == RequestColor(req.rgb, req.brightness)
           task == [NewTask("fade", target, Clamp(req.steps, 1, MaxSteps),
                            FALSE, InLock(tasks))
                       EXCEPT !.req = req, !.cur0 = current]
           L2 == Spawn(L, id, task)
       IN  /\ tasks' = L2.tasks
           /\ ready' = L2.ready
           /\ ntasks' = id
           /\ fadeH' = id /\ syncH' = 0 /\ effectH' = 0

PostFade == FadeApi(FadeTarget)

\* POST /api/effect/start with effect "pulse" (r, g, b given) or "rainbow";
\* "pulse-no-rgb" and "unknown" are the two requests answered with 400.
PostEffectStart(eff) ==
    /\ HandlerFrame
    /\ LET L == CancelAll(LoopState, <<"fade", "sync", "effect">>)
           id == ntasks + 1
           base == RequestColor(PulseBase.rgb, PulseBase.brightness)
       IN  IF eff \in {"pulse", "rainbow"}
           THEN /\ ntasks < MaxTasks
                /\ LET task == NewTask(eff, IF eff = "pulse" THEN base ELSE <<0, 0, 0>>,
                                       0, FALSE, InLock(tasks))
                       L2 == Spawn(L, id, task)
                   IN  /\ tasks' = L2.tasks
                       /\ ready' = L2.ready
                /\ ntasks' = id
                /\ effectH' = id /\ fadeH' = 0 /\ syncH' = 0
           ELSE /\ tasks' = L.tasks
                /\ ready' = L.ready
                /\ ntasks' = ntasks
                /\ effectH' = 0 /\ fadeH' = 0 /\ syncH' = 0

\* POST /api/sync/start: create_task does not raise, the monitor index is
\* only looked at inside the task.
SyncStart(monitor, threshold) ==
    /\ HandlerFrame
    /\ ntasks < MaxTasks
    /\ LET id == ntasks + 1
           L  == CancelAll(LoopState, <<"fade", "effect", "sync">>)
           task == NewTask("sync", <<0, 0, 0>>, Clamp(threshold, 0, 255 * 3),
                           BadMonitor(monitor), InLock(tasks))
           L2 == Spawn(L, id, task)
       IN  /\ tasks' = L2.tasks
           /\ ready' = L2.ready
           /\ ntasks' = id
           /\ syncH' = id /\ fadeH' = 0 /\ effectH' = 0

PostSyncStart(monitor) == SyncStart(monitor, SyncThreshold)

\* GET /api/status, the mode it reports when its three reads of the task
\* handles see one state.
StatusMode ==
    IF syncH # 0 /\ tasks[syncH].st # "done" THEN "sync"
    ELSE IF effectH # 0 /\ tasks[effectH].st # "done" THEN "effect"
    ELSE IF fadeH # 0 /\ tasks[fadeH].st # "done" THEN "fade"
    ELSE "manual"

\* ---- the worker thread: the "def" handlers -----------------------------

\* The statements of a handler at which the worker thread can be preempted:
\*   cf1  cancel_fade: "if _fade_task and not _fade_task.done(): cancel()"
\*   cf2  cancel_fade: "_fade_task = None"
\*   cs1  cancel_sync: the if, with _sync_stop.set() and cancel()
\*   cs2  cancel_sync: "_sync_task = None; _sync_stop.clear()"
\*   ce1, ce2  cancel_effect, likewise
\*   w    ctl.set_color(r, g, b): the report is built and sent
\*   c    ctl.set_color(r, g, b): the counter is advanced
\*   s    _current["r"], _current["g"], _current["b"] = r, g, b
\*   ss1  status: "_sync_task and", the first load of the global
\*   ss2  status: "not _sync_task.done()", the second load of the global
\*   se1, se2, sf1, sf2  likewise for _effect_task and _fade_task
\*   ret  status: return JSONResponse(...)
Prog(op) ==
    CASE op \in {"color", "off"} ->
            <<"cf1", "cf2", "cs1", "cs2", "ce1", "ce2", "w", "c", "s">>
      [] op = "stop"        -> <<"cf1", "cf2", "cs1", "cs2", "ce1", "ce2">>
      [] op = "effect_stop" -> <<"cs1", "cs2", "ce1", "ce2">>
      [] op = "status"      -> <<"ss1", "ss2", "se1", "se2", "sf1", "sf2", "ret">>
      [] OTHER              -> <<"cs1", "cs2">>          \* "sync_stop"

WorkerOps == {"color", "off", "stop", "effect_stop", "sync_stop"}

At(ins) == wk.op # "idle" /\ Prog(wk.op)[wk.pc] = ins

\* The worker moves to its next statement, or returns the response.
Advance == IF wk.pc = Len(Prog(wk.op)) THEN Idle ELSE [wk EXCEPT !.pc = @ + 1]

\* POST /api/color, /api/off, /api/stop, /api/effect/stop, /api/sync/stop:
\* the framework hands the handler to the worker thread.
WorkerAccept(op) ==
    /\ wk.op = "idle"
    /\ nreq < MaxReq
    /\ nreq' = nreq + 1
    /\ wk' = [ Idle EXCEPT
                 !.op = op, !.pc = 1,
                 !.rgb = IF op = "color"
                         THEN RequestColor(ManualColor.rgb, ManualColor.brightness)
                         ELSE <<0, 0, 0>>,
                 !.old = InLock(tasks) ]
    /\ UNCHANGED <<ctlVars, findVars, fnVars, tasks, ntasks, ready, locked, waiters,
                   running, fadeH, effectH, syncH, effectStop, syncStop,
                   current, nfail, lastWriter, superseded>>

WorkerCancelFade1 ==
    /\ At("cf1")
    /\ SetLoop(CancelHandle(LoopState, fadeH))
    /\ wk' = Advance
    /\ UNCHANGED <<ctlVars, findVars, fnVars, ntasks, running, fadeH, effectH, syncH,
                   effectStop, syncStop, current, nreq, nfail, lastWriter,
                   superseded>>

WorkerCancelFade2 ==
    /\ At("cf2")
    /\ fadeH' = 0
    /\ wk' = Advance
    /\ UNCHANGED <<ctlVars, findVars, fnVars, tasks, ntasks, ready, locked, waiters,
                   running, effectH, syncH, effectStop, syncStop, current,
                   nreq, nfail, lastWriter, superseded>>

WorkerCancelSync1 ==
    /\ At("cs1")
    /\ SetLoop(CancelHandle(LoopState, syncH))
    /\ syncStop' = IF syncH # 0 /\ tasks[syncH].st # "done" THEN TRUE ELSE syncStop
    /\ wk' = Advance
    /\ UNCHANGED <<ctlVars, findVars, fnVars, ntasks, running, fadeH, effectH, syncH,
                   effectStop, current, nreq, nfail, lastWriter, superseded>>

WorkerCancelSync2 ==
    /\ At("cs2")
    /\ syncH' = 0
    /\ syncStop' = FALSE
    /\ wk' = Advance
    /\ UNCHANGED <<ctlVars, findVars, fnVars, tasks, ntasks, ready, locked, waiters,
                   running, fadeH, effectH, effectStop, current, nreq, nfail,
                   lastWriter, superseded>>

WorkerCancelEffect1 ==
    /\ At("ce1")
    /\ SetLoop(CancelHandle(LoopState, effectH))
    /\ effectStop' = IF effectH # 0 /\ tasks[effectH].st # "done" THEN TRUE
                     ELSE effectStop
    /\ wk' = Advance
    /\ UNCHANGED <<ctlVars, findVars, fnVars, ntasks, running, fadeH, effectH, syncH,
                   syncStop, current, nreq, nfail, lastWriter, superseded>>

WorkerCancelEffect2 ==
    /\ At("ce2")
    /\ effectH' = 0
    /\ effectStop' = FALSE
    /\ wk' = Advance
    /\ UNCHANGED <<ctlVars, findVars, fnVars, tasks, ntasks, ready, locked, waiters,
                   running, fadeH, syncH, syncStop, current, nreq, nfail,
                   lastWriter, superseded>>

\* set_color_api line 641, off_api line 732: the write of the manual color.
\* When both transports fail the OSError ends the handler.
WorkerWrite ==
    /\ At("w")
    /\ \E rawOk \in BOOLEAN, featOk \in BOOLEAN :
         LET c == DevWrite(wk.rgb, rawOk, featOk)
         IN  /\ rawOk => featOk
             /\ IF c.raised
                THEN /\ nfail < MaxFail
                     /\ nfail' = nfail + 1
                     /\ wk' = Idle
                     /\ UNCHANGED <<wire, ncalls, lastWriter, superseded>>
                ELSE /\ wire' = c.report
                     /\ ncalls' = ncalls + 1
                     /\ lastWriter' = Manual
                     /\ superseded' = superseded \cup wk.old
                     /\ wk' = Advance
                     /\ nfail' = nfail
    /\ UNCHANGED <<counter, call, findVars, fnVars, tasks, ntasks, ready, locked,
                   waiters, running, fadeH, effectH, syncH, effectStop,
                   syncStop, current, nreq>>

\* The handler's set_color call advances the counter and returns.
WorkerCount ==
    /\ At("c")
    /\ counter' = Advanced(counter)
    /\ wk' = Advance
    /\ UNCHANGED <<wire, call, ncalls, findVars, fnVars, tasks, ntasks, ready,
                   locked, waiters, running, fadeH, effectH, syncH, effectStop,
                   syncStop, current, nreq, nfail, lastWriter, superseded>>

WorkerStore ==
    /\ At("s")
    /\ current' = wk.rgb
    /\ wk' = Advance
    /\ UNCHANGED <<ctlVars, findVars, fnVars, tasks, ntasks, ready, locked, waiters,
                   running, fadeH, effectH, syncH, effectStop, syncStop, nreq,
                   nfail, lastWriter, superseded>>

\* ---- the worker thread: GET /api/status --------------------------------

DoneTasks == { t \in TaskIds : tasks[t].st = "done" }

\* The framework hands status() to the worker thread; mode = "manual".
StatusAccept ==
    /\ wk.op = "idle"
    /\ nreq < MaxReq
    /\ nreq' = nreq + 1
    /\ wk' = [ Idle EXCEPT !.op = "status", !.pc = 1, !.res = "manual",
                           !.mode0 = StatusMode, !.ended = DoneTasks,
                           !.n0 = nreq + 1 - ntasks ]
    /\ UNCHANGED <<ctlVars, findVars, fnVars, tasks, ntasks, ready, locked, waiters,
                   running, fadeH, effectH, syncH, effectStop, syncStop,
                   current, nfail, lastWriter, superseded>>

\* The worker goes to the statement ins of its handler.
Goto(ins) ==
    [wk EXCEPT !.pc = CHOOSE i \in 1..Len(Prog(wk.op)) : Prog(wk.op)[i] = ins]

StatusFrame ==
    UNCHANGED <<ctlVars, findVars, fnVars, tasks, ntasks, ready, locked, waiters,
                running, fadeH, effectH, syncH, effectStop, syncStop, current,
                nreq, nfail, lastWriter, superseded>>

\* "if h and ...": the truth value of the handle h as the global holds it now
\* (a Task is true, None is false); on false the next branch is tried.
StatusTest(h, first, after) ==
    /\ At(first)
    /\ wk' = IF h = 0 THEN Goto(after) ELSE Advance
    /\ StatusFrame

\* "... not h.done()": the global is loaded again; None has no attribute done
\* (AttributeError), a task that is not done decides the mode.
StatusDone(h, second, mode, after) ==
    /\ At(second)
    /\ wk' = IF h = 0 THEN [Goto("ret") EXCEPT !.res = "error"]
             ELSE IF tasks[h].st # "done" THEN [Goto("ret") EXCEPT !.res = mode]
             ELSE Goto(after)
    /\ StatusFrame

StatusSync1   == StatusTest(syncH, "ss1", "se1")
StatusSync2   == StatusDone(syncH, "ss2", "sync", "se1")
StatusEffect1 == StatusTest(effectH, "se1", "sf1")
StatusEffect2 == StatusDone(effectH, "se2", "effect", "sf1")
StatusFade1   == StatusTest(fadeH, "sf1", "ret")
StatusFade2   == StatusDone(fadeH, "sf2", "fade", "ret")

\* status returns its response (or the framework answers the error).
StatusReturn ==
    /\ At("ret")
    /\ wk' = Idle
    /\ StatusFrame

(***************************************************************************)
(* webapp.py: wheel evaluated on its own.                                  *)
(***************************************************************************)
NoResult == <<>>

FnIdle == fnArg = 0 /\ fnRes = NoResult

\* Positions handed to wheel: the rainbow loop passes 0..255, the function
\* itself accepts any integer.
WheelInputs == (0 - MaxPos)..(2 * MaxPos)

FnInit == fnArg \in WheelInputs /\ fnRes = NoResult

\* One call wheel(pos).
EvalWheel ==
    /\ fnRes = NoResult
    /\ fnRes' = Wheel(fnArg)
    /\ UNCHANGED fnArg

(***************************************************************************)
(* Inputs of the single-mode specifications.                               *)
(***************************************************************************)
\* _current when the fade request arrives.
FadeStarts == { <<0, 0, 0>>, <<255, 200, 120>>, <<175, 255, 3>> }

\* Fade requests: channels, brightness and steps inside and outside their
\* ranges; brightness 0, 29 (inexact scale), steps that give inexact ties.
FadeInputs ==
    { FadeTarget,
      [rgb |-> <<255, 0, 0>>,       brightness |-> 50,  steps |-> 10],
      [rgb |-> <<0, 0, 0>>,         brightness |-> 100, steps |-> 10],
      [rgb |-> <<100, 200, 50>>,    brightness |-> 29,  steps |-> 3],
      [rgb |-> <<10, 20, 30>>,      brightness |-> 0,   steps |-> 1],
      [rgb |-> <<255, 255, 255>>,   brightness |-> 150, steps |-> MaxSteps],
      [rgb |-> <<-5, 128, 300>>,    brightness |-> -20, steps |-> 0],
      [rgb |-> <<1, 2, 3>>,         brightness |-> 100, steps |-> MaxSteps + 1],
      [rgb |-> <<0, 0, 255>>,       brightness |-> 100, steps |-> -7] }

\* Colors of a slowly changing screen: neighbours differ by 4, the ends by 8.
DriftColors == { <<100, 100, 100>>, <<104, 100, 100>>, <<108, 100, 100>> }

\* change_threshold of a sync request: 0, the default, and one above 255 * 3.
ThresholdInputs == { 0, SyncThreshold, 1000 }

(***************************************************************************)
(* Specifications.                                                         *)
(***************************************************************************)
InitCtl == CtlInit /\ FindIdle /\ SchedInit /\ FnIdle
NextCtl == CtlSetColor /\ UNCHANGED <<findVars, schedVars, fnVars>>
SpecCtl == InitCtl /\ [][NextCtl]_vars

InitFind == FindInit /\ CtlInit /\ SchedInit /\ FnIdle
NextFind == FindCall /\ UNCHANGED <<ctlVars, schedVars, fnVars>>
SpecFind == InitFind /\ [][NextFind]_vars

\* wheel on its own.
InitFn == FnInit /\ CtlInit /\ FindIdle /\ SchedInit
NextFn == EvalWheel /\ UNCHANGED <<ctlVars, findVars, schedVars>>
SpecFn == InitFn /\ [][NextFn]_vars

\* One fade, from the request to the end of the task, with nothing else going
\* on: a manual set has left _current at one of FadeStarts.
InitFade == (\E rgb \in FadeStarts : ManualDone(rgb)) /\ FindIdle /\ FnIdle
NextFade ==
    \/ ntasks = 0 /\ \E req \in FadeInputs : FadeApi(req)
    \/ TaskBegin
    \/ \E t \in TaskIds : TimerFire(t)
    \/ TaskWrite
    \/ TaskCount
    \/ TaskStore
SpecFade == InitFade /\ [][NextFade]_vars

\* The event loop runs every scheduled task step and every expired timer, and
\* a task step that has begun runs to its next suspension point.
FairFade ==
    /\ WF_vars(TaskBegin)
    /\ WF_vars(\E t \in TaskIds : TimerFire(t))
    /\ WF_vars(TaskWrite)
    /\ WF_vars(TaskCount)
    /\ WF_vars(TaskStore)
SpecFadeFair == SpecFade /\ FairFade

\* One screen-sync run of up to SyncTicks ticks, with nothing else going on.
InitSync == SchedInit /\ CtlInit /\ FindIdle /\ FnIdle
NextSync ==
    \/ ntasks = 0 /\ \E thr \in ThresholdInputs : SyncStart(2, thr)
    \/ TaskStep(DriftColors)
    \/ \E t \in TaskIds : TimerFireUpTo(t, SyncTicks)
    \/ TaskWrite
    \/ TaskCount
    \/ TaskStore
SpecSync == InitSync /\ [][NextSync]_vars

\* The status query beside the mode switches that run on the event loop.
InitStatus == SchedInit /\ CtlInit /\ FindIdle /\ FnIdle
NextStatus ==
    \/ TaskBegin
    \/ \E t \in TaskIds : TimerFire(t)
    \/ TaskWrite
    \/ TaskCount
    \/ TaskStore
    \/ PostFade
    \/ \E eff \in {"pulse", "rainbow", "pulse-no-rgb", "unknown"} : PostEffectStart(eff)
    \/ \E m \in MonitorInputs : PostSyncStart(m)
    \/ StatusAccept
    \/ StatusSync1
    \/ StatusSync2
    \/ StatusEffect1
    \/ StatusEffect2
    \/ StatusFade1
    \/ StatusFade2
    \/ StatusReturn
SpecStatus == InitStatus /\ [][NextStatus]_vars

Init == SchedInit /\ CtlInit /\ FindIdle /\ FnIdle
Next ==
    \/ TaskBegin
    \/ \E t \in TaskIds : TimerFire(t)
    \/ TaskWrite
    \/ TaskCount
    \/ TaskStore
    \/ PostFade
    \/ \E eff \in {"pulse", "rainbow", "pulse-no-rgb", "unknown"} : PostEffectStart(eff)
    \/ \E m \in MonitorInputs : PostSyncStart(m)
    \/ \E op \in WorkerOps : WorkerAccept(op)
    \/ WorkerCancelFade1
    \/ WorkerCancelFade2
    \/ WorkerCancelSync1
    \/ WorkerCancelSync2
    \/ WorkerCancelEffect1
    \/ WorkerCancelEffect2
    \/ WorkerWrite
    \/ WorkerCount
    \/ WorkerStore
Spec == Init /\ [][Next]_vars

(***************************************************************************)
(* Claims about the encoder and the Controller (SpecCtl).                  *)
(***************************************************************************)
\* The captured report of device.py lines 8-11, byte by byte.
CapturedReport ==
    <<82, 66, 16, 14, 134, 1, 0, 0, 255, 65, 66, 0, 0, 0, 254, 185>>
    \o [i \in 1..48 |-> 0]

Called == call.attempts # <<>>

\* C1: the report built for counter c and channels (r,g,b) is 64 bytes, has
\* byte 3 = c mod 256, bytes 6,7,8 = r,g,b mod 256, byte 15 = the sum of bytes
\* 0..14 mod 256 taken after those were set, and every other byte equal to the
\* captured template; out-of-range channels wrap, they are not clamped.
C1_ReportLayout ==
    Called =>
        LET rep == call.report
        IN  /\ Len(rep) = 64
            /\ rep[4] = call.ctr % 256
            /\ rep[7] = call.r % 256
            /\ rep[8] = call.g % 256
            /\ rep[9] = call.b % 256
            /\ rep[16] = SumTo(rep, 15) % 256
            /\ \A i \in (1..64) \ {4, 7, 8, 9, 16} : rep[i] = CapturedReport[i]

\* A report for the out-of-range triple (300,-1,256): 300 went out as 44.
C1_Witness ==
    /\ Called
    /\ call.r = 300 /\ call.report[7] = 44
    /\ call.g = -1  /\ call.report[8] = 255
    /\ call.ctr = 200

\* C2: N calls that return advance the counter by N mod 256 whichever
\* transport succeeded, and the k-th of them carries counter byte
\* (initial + k - 1) mod 256.
C2_CounterAdvance ==
    /\ counter = (InitialCounter + ncalls) % 256
    /\ (Called /\ ~call.raised) =>
            call.report[4] = (InitialCounter + ncalls - 1) % 256

\* The 243rd returning call, made through the fallback, after the counter
\* wrapped from 255 to 0.
C2_Witness ==
    /\ ncalls = 243
    /\ counter = 1
    /\ Len(call.attempts) = 2 /\ ~call.raised

\* C3: when both writes of a call fail the error propagates and the counter is
\* left as it was, so the next call is built with the same counter value.
C3_DoubleFailure ==
    [][ /\ (Len(call'.attempts) = 2 /\ ~call'.attempts[2].ok) =>
              (call'.raised /\ counter' = counter /\ ncalls' = ncalls)
        /\ (Called /\ call.raised) =>
              (call'.ctr = call.ctr /\ call'.report[4] = call.report[4])
      ]_vars

\* A call whose two writes failed, after earlier calls had succeeded.
C3_Witness ==
    /\ Called /\ call.raised
    /\ Len(call.attempts) = 2
    /\ ~call.attempts[1].ok /\ ~call.attempts[2].ok
    /\ ncalls = 3 /\ counter = call.ctr

\* C4: the fallback is attempted once iff the raw write failed, never after a
\* raw write that succeeded, no transport is attempted twice, and the fallback
\* carries the bytes of the raw attempt.
C4_OneFallback ==
    Called =>
        LET a == call.attempts
        IN  /\ Len(a) \in {1, 2}
            /\ a[1].via = "raw" /\ a[1].bytes = call.report
            /\ (Len(a) = 2) <=> ~a[1].ok
            /\ Len(a) = 2 => (a[2].via = "feature" /\ a[2].bytes = a[1].bytes)

\* A call whose raw write failed and whose feature report went through.
C4_Witness ==
    /\ Called
    /\ Len(call.attempts) = 2
    /\ ~call.attempts[1].ok /\ call.attempts[2].ok
    /\ wire = call.report

\* C28: the template is a fixed point of the encoder: the report built for
\* the template's own counter 0x0E, which is the initial counter of the
\* Controller, and its own color (0,0,255) is the captured report byte for
\* byte, checksum 0xB9 included.
C28_TemplateFixedPoint ==
    /\ CapturedReport[4] = InitialCounter
    /\ <<CapturedReport[7], CapturedReport[8], CapturedReport[9]>> = <<0, 0, 255>>
    /\ ( /\ Called
          /\ call.ctr = InitialCounter
          /\ <<call.r, call.g, call.b>> = <<0, 0, 255>> )
        => /\ call.report = CapturedReport
           /\ call.report[16] = 185

\* The first call of a fresh Controller was for blue and the device accepted
\* the captured report.
C28_Witness ==
    /\ ncalls = 1
    /\ call.ctr = InitialCounter
    /\ <<call.r, call.g, call.b>> = <<0, 0, 255>>
    /\ wire = CapturedReport

(***************************************************************************)
(* Claims about the locator (SpecFind).                                    *)
(***************************************************************************)
BeginsWithSignature(d) ==
    /\ d.st = "ok"
    /\ Len(d.bytes) >= 3
    /\ \A i \in 1..3 : d.bytes[i] = VendorSignature[i]

Matching == { n \in nodes : BeginsWithSignature(descr[n]) }

\* C5: find_vendor_device returns the lexically first node whose descriptor
\* begins with 06 00 FF, and fails with the not-found error exactly when no
\* candidate matches.
C5_FirstMatch ==
    found # Pending =>
        IF Matching = {} THEN found = NotFound
        ELSE /\ found.kind = "ok"
             /\ found.dev \in Matching
             /\ \A m \in Matching \ {found.dev} : LexLess(found.dev, m)

\* C6: a candidate whose descriptor is absent or unreadable is skipped: it
\* never makes the scan fail when a later candidate matches.
C6_UnreadableSkipped ==
    found # Pending =>
        \A m \in Matching :
            (\A n \in nodes : LexLess(n, m) => descr[n].st \in {"absent", "denied"})
                => found = FoundDev(m)


(***************************************************************************)
(* Claims about the scheduler (Spec).                                      *)
(***************************************************************************)
\* The color bytes of the last report the device accepted.
WireColor == <<wire[7], wire[8], wire[9]>>

FadeTasks == { t \in TaskIds : tasks[t].kind = "fade" }

\* The device writes made by the tasks 1..n.
RECURSIVE WritesUpTo(_)
WritesUpTo(n) == IF n = 0 THEN 0 ELSE tasks[n].nw + WritesUpTo(n - 1)

\* Every successful device write so far was made by a driver task.
OnlyTasksWrote == ncalls = WritesUpTo(MaxTasks)

\* No handler and no task step is under way: neither thread stands between
\* two of its statements.
Quiet == running = 0 /\ wk.op = "idle"

\* C7: in every reachable state at most one driver task is Running, that is
\* inside its lock-protected write loop.
C7_OneRunning == Cardinality(InLock(tasks)) <= 1

\* One task is inside the lock block and another, not cancelled, waits for
\* the lock.
C7_Witness ==
    \E t1 \in TaskIds, t2 \in TaskIds :
        /\ t1 \in InLock(tasks)
        /\ tasks[t2].st = "lockwait" /\ tasks[t2].fut = "pending"
        /\ ~tasks[t2].cxl

\* The pairs (r, f): rainbow task r was Running when fade task f was created.
RainbowThenFade ==
    { p \in TaskIds \X TaskIds :
        /\ tasks[p[2]].kind = "fade"
        /\ tasks[p[1]].kind = "rainbow"
        /\ p[1] \in tasks[p[2]].old }

\* C8: when a fade is requested while Rainbow is running, the Rainbow task
\* makes no device write after the request was accepted, and once the fade has
\* made its first write it is the only driver task inside the lock and the
\* Rainbow task has ended.
C8_FadeReplacesRainbow ==
    /\ [](\A p \in RainbowThenFade :
            tasks[p[2]].nw >= 1 =>
                /\ tasks[p[1]].st = "done"
                /\ InLock(tasks) \subseteq {p[2]})
    /\ [][\A p \in RainbowThenFade : tasks'[p[1]].nw = tasks[p[1]].nw]_vars

\* C9: a task that was Running when a manual color set or a force-off was
\* accepted makes no device write and no _current update after the manual
\* write.
C9_ManualTearsDown ==
    [][\A t \in superseded :
            /\ tasks'[t].nw = tasks[t].nw
            /\ ~(tasks[t].st = "wrote" /\ tasks'[t].st # "wrote")]_vars

\* C10: a task writes to the device and to _current only while it holds the
\* lock, and a handler writes to either only while no task holds the lock.
C10_WritesUnderLock ==
    [][ /\ (ncalls' # ncalls /\ lastWriter' # Manual) => locked = lastWriter'
        /\ (ncalls' # ncalls /\ lastWriter' = Manual) => locked = 0
        /\ \A t \in TaskIds :
              (tasks[t].st = "wrote" /\ tasks'[t].st # "wrote") => locked = t
        /\ (At("s") /\ wk' # wk) => locked = 0 ]_vars

\* C11: the drive lock is released whenever a driver task's loop exits, by
\* completion, cancellation or an error of a device write: a task that has
\* ended does not hold the lock, and when no driver task is alive the lock is
\* free.
C11_LockReleased ==
    /\ \A t \in TaskIds : tasks[t].st = "done" => locked # t
    /\ Alive(tasks) = {} => locked = 0

\* No task is alive, one ended by cancellation after it had written and
\* another by an error of its device write.
C11_Witness ==
    /\ Alive(tasks) = {}
    /\ \E t1 \in TaskIds, t2 \in TaskIds :
          /\ tasks[t1].out = "cancelled" /\ tasks[t1].nw >= 1
          /\ tasks[t2].out = "error"

\* A handler that runs on the event loop has handled a request.
LoopHandlerReturns == nreq' = nreq + 1 /\ wk' = wk

\* The worker thread returns from its handler.
WorkerReturns == wk.op # "idle" /\ wk'.op = "idle"

\* C12: when a mode-switch or stop request returns to its caller, the driver
\* task that was Running before the request has terminated and released the
\* drive lock.
C12_CancelAwaited ==
    [][ /\ LoopHandlerReturns =>
              \A t \in InLock(tasks) : tasks'[t].st = "done" /\ locked' # t
        /\ WorkerReturns =>
              \A t \in wk.old : tasks'[t].st = "done" /\ locked' # t ]_vars

\* The driver kinds that are stopped through a stop flag.
Flagged == {"pulse", "rainbow", "sync"}

\* C13: when a running pulse, rainbow or screen-sync task is stopped, the
\* stop flag stays raised until the task has observed it, and the task ends
\* because its loop check saw the flag (it completes, it is not torn down by
\* the cancellation).
C13_StopObserved ==
    /\ [](\A t \in TaskIds :
            (tasks[t].kind \in Flagged /\ tasks[t].nw >= 1 /\ tasks[t].cxl
                /\ tasks[t].st = "done") => tasks[t].out # "cancelled")
    /\ [][(effectStop /\ ~effectStop') =>
            \A t \in TaskIds :
                (tasks[t].kind \in {"pulse", "rainbow"} /\ tasks[t].cxl)
                    => t \notin InLock(tasks)]_vars
    /\ [][(syncStop /\ ~syncStop') =>
            \A t \in TaskIds :
                (tasks[t].kind = "sync" /\ tasks[t].cxl) => t \notin InLock(tasks)]_vars

\* C14: no driver task is created for a sync-start request whose monitor
\* index is outside the available range.
C14_RejectedBeforeSpawn == \A t \in TaskIds : ~tasks[t].bad

\* An event-loop handler has handled a malformed mode-start request: it
\* created no task, or a screen-sync task for a monitor that does not exist.
MalformedHandled ==
    /\ LoopHandlerReturns
    /\ ntasks' = ntasks \/ tasks'[ntasks'].bad

\* The driver tasks that are Running with no cancellation requested.
Healthy == { t \in InLock(tasks) : ~tasks[t].cxl /\ ~tasks[t].mustCancel }

\* C15: a malformed mode-start request that arrives while a healthy driver
\* task is running leaves that task running and referenced by its handle.
C15_BadRequestKeepsMode ==
    [][MalformedHandled =>
          \A t \in Healthy :
              /\ ~tasks'[t].cxl
              /\ fadeH = t => fadeH' = t
              /\ effectH = t => effectH' = t
              /\ syncH = t => syncH' = t]_vars

\* C24: mode switching never deadlocks: whenever a driver task waits for the
\* lock and no handler is under way, the task that holds the lock is one that
\* ends without a further request (a fade, which runs out of steps, or a task
\* whose cancellation has been requested), so that the waiting task gets the
\* lock and makes its first write.
C24_NoDeadlock ==
    \A t \in TaskIds :
        ( /\ tasks[t].st = "lockwait" /\ tasks[t].fut = "pending"
          /\ wk.op = "idle"
          /\ locked # 0 )
            => (tasks[locked].kind = "fade" \/ tasks[locked].cxl)

\* C25: the counter bytes of consecutive successful reports differ by exactly
\* 1 mod 256: whenever the device accepts a report after an earlier one, its
\* counter byte is the earlier report's counter byte plus one.
C25_CounterSteps ==
    [][(ncalls' = ncalls + 1 /\ wire # <<>>)
          => wire'[4] = And255(wire[4] + 1)]_vars

\* C21: whenever no handler and no task step is under way and a device write
\* has succeeded, _current is the color of the most recent successful device
\* write; and _current changes only after a successful write.
C21_CurrentIsLastWrite ==
    /\ []((Quiet /\ ncalls >= 1) => current = WireColor)
    /\ [][current' # current => ncalls >= 1]_vars

InRange(c) == \A i \in 1..3 : c[i] \in 0..255

\* Requested channels and brightness, inside and outside their ranges.
ChannelInputs == {-5, 0, 100, 255, 300}
BrightnessInputs == {-20, 0, 29, 100, 150}

\* The handlers' color computation and wheel over their inputs.
HelpersInRange ==
    /\ \A r \in ChannelInputs, g \in ChannelInputs, b \in ChannelInputs,
          br \in BrightnessInputs : InRange(RequestColor(<<r, g, b>>, br))
    /\ \A j \in 0..255 : InRange(Wheel(j))
    /\ \A k \in 0..(2 * PulseSteps + 1) :
          InRange(PulseColor(RequestColor(PulseBase.rgb, PulseBase.brightness), k))

Nearest(w, n, d) == 2 * Abs(w * d - n) <= d

\* C16: a fade from A (_current when it starts) to B over S steps writes for
\* the steps 1..S only, so that the i-th write is that of step i; the write of
\* step i is A + (B - A) * i / S per channel rounded to a nearest integer; the
\* write of step S is B exactly; a fade that completes has made S writes.
C16_FadeSteps ==
    \A t \in FadeTasks :
        LET T == tasks[t]
        IN  /\ T.st = "wrote" =>
                /\ T.k \in 1..T.n
                /\ T.nw = T.k
                /\ \A c \in 1..3 :
                      Nearest(WireColor[c],
                              T.start[c] * T.n + (T.a[c] - T.start[c]) * T.k, T.n)
                /\ T.k = T.n => WireColor = T.a
            /\ T.out = "completed" => T.nw = T.n

\* The last step of a fade of 300 steps between two different colors has been
\* written.
C16_Witness ==
    \E t \in FadeTasks :
        /\ tasks[t].st = "wrote"
        /\ tasks[t].n = MaxSteps /\ tasks[t].k = MaxSteps
        /\ tasks[t].start # tasks[t].a

\* C17: the fade to (255,0,0) with brightness 50 and 10 steps, starting from
\* _current (0,0,0), writes (13,0,0) at step 1 and (128,0,0) at step 10.
C17_FadeExample ==
    \A t \in FadeTasks :
        LET T == tasks[t]
        IN  ( /\ T.req = [rgb |-> <<255, 0, 0>>, brightness |-> 50, steps |-> 10]
              /\ T.start = <<0, 0, 0>>
              /\ T.st = "wrote" )
            => /\ T.k = 1 => WireColor = <<13, 0, 0>>
               /\ T.k = 10 => WireColor = <<128, 0, 0>>

\* C18: the fade target is the requested color (channels clamped to 0..255)
\* scaled by b / 100 per channel, b the requested brightness clamped to
\* 0..100: within one unit of the exact product, (0,0,0) for brightness 0 and
\* the requested color itself for brightness 100.
C18_BrightnessScales ==
    \A t \in FadeTasks :
        LET T == tasks[t]
            b == Clamp(T.req.brightness, 0, 100)
        IN  \A c \in 1..3 :
                LET ch == Clamp(T.req.rgb[c], 0, 255)
                IN  /\ Abs(T.a[c] * 100 - ch * b) < 100
                    /\ b = 0 => T.a[c] = 0
                    /\ b = 100 => T.a[c] = ch

\* The number of writes of a fade requested with steps: steps kept in 1..300.
WritesOf(steps) ==
    IF steps < 1 THEN 1 ELSE IF steps > MaxSteps THEN MaxSteps ELSE steps

\* C23: a fade never makes more than clamp(steps, 1, 300) device writes and
\* has made exactly that many when it completes; requested with steps below
\* 1 its one write is the target; every fade task ends, and once it has
\* ended the lock is free and the status query reports mode manual.
C23_FadeTerminates ==
    /\ [](\A t \in FadeTasks :
            LET T == tasks[t]
                N == WritesOf(T.req.steps)
            IN  /\ T.nw <= N
                /\ (T.st = "done" /\ T.out = "completed") => T.nw = N
                /\ T.st = "done" => (locked = 0 /\ StatusMode = "manual")
                /\ (T.req.steps < 1 /\ T.st = "sent") => WireColor = T.a)
    /\ \A t \in TaskIds : (tasks[t].st = "new") ~> (tasks[t].st = "done")

\* A fade requested with a negative steps value has completed after one
\* write, the write of its target.
C23_Witness ==
    \E t \in FadeTasks :
        /\ tasks[t].req.steps < 0
        /\ tasks[t].st = "done" /\ tasks[t].out = "completed"
        /\ tasks[t].nw = 1
        /\ current = tasks[t].a /\ WireColor = tasks[t].a
        /\ locked = 0 /\ StatusMode = "manual"

(***************************************************************************)
(* Claims about one screen-sync run (SpecSync).                            *)
(***************************************************************************)
SyncTasks == { t \in TaskIds : tasks[t].kind = "sync" }

\* The latest two ticks of task t computed colors within its threshold.
CloseTicks(t) ==
    tasks[t].nt >= 2 /\ Delta(tasks[t].seen, tasks[t].seen0) <= tasks[t].n

\* C19 as stated: of two consecutive ticks whose colors differ by at most the
\* threshold only the first writes, or neither: the second never writes.
C19_OnlyFirstWrites ==
    \A t \in SyncTasks : CloseTicks(t) => ~tasks[t].drew

\* C19, amended: two consecutive ticks whose colors differ by at most the
\* threshold do not both write (the first alone, the second alone, or
\* neither), and a tick writes exactly when its color differs from the last
\* color written by this run by more than the threshold.
C19_NotBothWrite ==
    \A t \in SyncTasks :
        LET T == tasks[t]
        IN  /\ CloseTicks(t) => ~(T.drew /\ T.drew0)
            /\ T.st = "run" => Delta(T.pend, T.last) > T.n
            /\ (T.nt >= 1 /\ ~T.drew) => Delta(T.seen, T.last) <= T.n

\* A slow drift: the latest tick wrote although its color is within the
\* threshold of the color of the tick before, which did not write.
C19_Witness ==
    \E t \in SyncTasks :
        /\ CloseTicks(t)
        /\ tasks[t].st = "wrote"
        /\ tasks[t].drew /\ ~tasks[t].drew0
        /\ tasks[t].nw >= 2

(***************************************************************************)
(* Claims about the status query (SpecStatus).                             *)
(***************************************************************************)
\* The handles that refer to a task that is not done.
LiveHandles ==
    { h \in {fadeH, effectH, syncH} : h # 0 /\ tasks[h].st # "done" }

\* Since the status query at hand was accepted no task has ended and no
\* request was answered without creating a task: a handle that referred to a
\* task that is not done then was followed only by such handles.
Steady == DoneTasks = wk.ended /\ nreq - ntasks = wk.n0

\* C27: at most one of the three handles refers to a task that is not done,
\* and the status query answers with a mode: it answers manual only if at
\* some moment of the query no handle referred to a task that is not done.
\* (An answer sync, effect or fade is given on finding that handle's task not
\* done, when no other handle refers to such a task.)
C27_StatusUnambiguous ==
    /\ Cardinality(LiveHandles) <= 1
    /\ At("ret") =>
          /\ wk.res # "error"
          /\ (wk.res = "manual" /\ Steady) => wk.mode0 = "manual"
          /\ (wk.res # "manual" /\ Steady) => LiveHandles # {}

(***************************************************************************)
(* Claims about wheel (SpecFn).                                            *)
(***************************************************************************)
\* C20: wheel(p) = wheel(p mod 256) for every integer p; each channel of the
\* result is in 0..255 and the channels sum to 255; at p = 0, 85, 170 (mod
\* 256) exactly one channel is 255 and the other two are 0.
C20_WheelPeriodic ==
    fnRes # NoResult =>
        LET q == fnArg % 256
        IN  /\ fnRes = Wheel(q)
            /\ \A c \in 1..3 : fnRes[c] \in 0..255
            /\ fnRes[1] + fnRes[2] + fnRes[3] = 255
            /\ q \in {0, 85, 170} =>
                  \E c \in 1..3 :
                      /\ fnRes[c] = 255
                      /\ \A d \in (1..3) \ {c} : fnRes[d] = 0

\* wheel(256) has been evaluated and is the color of wheel(0).
C20_Witness == fnArg = 256 /\ fnRes = <<0, 255, 0>>

=============================================================================
